---- MODULE Spec2Model ----
(***************************************************************************)
(* Model of flaw_nozzle_finder.py: rotate_to_vertical, find_nozzles,      *)
(* process_labels and the combined-index step of main.                    *)
(*                                                                         *)
(* Numbers.  Input coordinates are integers.  rotate_to_vertical rotates   *)
(* by -atan2(dy, dx); with r = sqrt(dx^2 + dy^2) the rotated point is      *)
(* ((x*dx + y*dy) / r, (y*dx - x*dy) / r).  The model keeps the rotated    *)
(* coordinates multiplied by r (an exact integer); find_nozzles' positions *)
(* (x - start) / step + 1 are invariant under that positive scaling, so    *)
(* pos is computed exactly as a rational <<num, den>>.  Tolerances are     *)
(* rationals [num, den].                                                   *)
(***************************************************************************)
EXTENDS Integers, Sequences, FiniteSets, TLC

\* ---------------------------------------------------------------- bounds
MaxCoord == 2
MaxY == 1
MaxPts == 3
MaxN == 3
FnMaxX == 4
FnMaxLen == 4
FnMaxN == 4
HalfMaxSpan == 60
HalfMaxN == 14

\* ---------------------------------------------------------------- helpers
Abs(v) == IF v < 0 THEN -v ELSE v

Range(s) == {s[i] : i \in 1..Len(s)}

\* sorted() of a list of numbers (ascending; equal numbers are equal)
RECURSIVE SortNums(_)
SortNums(s) ==
  IF s = <<>> THEN <<>>
  ELSE LET rest == SortNums(Tail(s))
           e == Head(s)
           k == Cardinality({i \in 1..Len(rest) : rest[i] < e})
       IN SubSeq(rest, 1, k) \o <<e>> \o SubSeq(rest, k + 1, Len(rest))

\* Python round() of the rational num/den (den > 0): round half to even
RoundHalfEven(num, den) ==
  LET q == num \div den
      rem == num - q * den
  IN IF 2 * rem < den THEN q
     ELSE IF 2 * rem > den THEN q + 1
     ELSE IF q % 2 = 0 THEN q ELSE q + 1

\* ---------------------------------------------------------------- float exactness
\* The program computes in IEEE doubles.  The model computes exactly and
\* records where the double result can differ: v / u is a double exactly
\* when u / gcd(v, u) is a power of two.  Where an inexact computation lands
\* on a rounding or tolerance boundary, the double may be on it or just
\* below or above it (offset e in {-1, 0, 1}); elsewhere the small integer
\* inputs keep the double on the same side as the exact value.
RECURSIVE GCD(_, _)
GCD(a, b) == IF b = 0 THEN Abs(a) ELSE GCD(b, a % b)

RECURSIVE IsPow2(_)
IsPow2(k) == k = 1 \/ (k > 1 /\ k % 2 = 0 /\ IsPow2(k \div 2))

Dyadic(v, u) == v = 0 \/ IsPow2(u \div GCD(v, u))

Offsets(exact) == IF exact THEN {0} ELSE {-1, 0, 1}

\* u = 2^j * OddPart(u)
RECURSIVE OddPart(_)
OddPart(u) == IF u % 2 = 0 THEN OddPart(u \div 2) ELSE u

\* floor(log2(n / d)) for n, d > 0
RECURSIVE Log2Floor(_, _)
Log2Floor(n, d) ==
  IF n < d THEN Log2Floor(2 * n, d) - 1
  ELSE IF n >= 2 * d THEN Log2Floor(n, 2 * d) + 1
  ELSE 0

RECURSIVE PowMod(_, _, _)
PowMod(b, k, md) == IF k = 0 THEN 1 % md ELSE (b * PowMod(b, k - 1, md)) % md

\* Side of the double pos = a / fl(D / m) + 1 from the exact a*m/D + 1, for
\* integers a >= 0, D, m > 0 with a*m/D a non-integer dyadic (a rounding or
\* tolerance boundary).  fl(D/m) = (D/m)(1 + delta) with |delta| = r/(D*2^k),
\* k = 52 - floor(log2(D/m)); the quotient h = a*m/D moves to its neighbour
\* double when h*|delta| exceeds half the gap there, and the move survives
\* the + 1 when h and h + 1 share an exponent.
FloatPosOffset(a, D, m) ==
  IF a = 0 \/ Dyadic(D, m) THEN 0
  ELSE
    LET es == Log2Floor(D, m)
        k == 52 - es
        rem == (D * PowMod(2, k, m)) % m
        qOdd == (D * PowMod(2, k, 2 * m)) % (2 * m) >= m
        up == 2 * rem > m \/ (2 * rem = m /\ qOdd)
        r == IF up THEN m - rem ELSE rem
        eh == Log2Floor(a * m, D)
        hPow2 == IF eh >= 0 THEN a * m = D * 2^eh ELSE a * m * 2^(-eh) = D
        c == eh - es - 1 - (IF hPow2 /\ up THEN 1 ELSE 0)
        lhs == IF c >= 0 THEN a * m * r ELSE a * m * r * 2^(-c)
        rhs == IF c >= 0 THEN D * D * 2^c ELSE D * D
        move == lhs > rhs \/ (lhs = rhs /\ ~up)
    IN IF ~move THEN 0
       ELSE IF Log2Floor(a * m + D, D) # eh THEN 0
       ELSE IF up THEN -1 ELSE 1

Sign(v) == IF v > 0 THEN 1 ELSE IF v < 0 THEN -1 ELSE 0

\* in_tol = abs(rounded - pos) < tolerance, with lhs / rhs the exact sides
\* and a, b the directions of the doubles' offsets from them
InTolOutcomes(lhs, rhs, a, tolExact) ==
  IF lhs < rhs THEN {TRUE}
  ELSE IF lhs > rhs THEN {FALSE}
  ELSE UNION {IF a = 0 /\ b = 0 THEN {FALSE}
              ELSE IF a <= 0 /\ b >= 0 THEN {TRUE}
              ELSE IF a >= 0 /\ b <= 0 THEN {FALSE}
              ELSE {TRUE, FALSE} : b \in Offsets(tolExact)}

RECURSIVE SeqChoices(_)
SeqChoices(sets) ==
  IF sets = <<>> THEN {<<>>}
  ELSE {<<h>> \o t : h \in Head(sets), t \in SeqChoices(Tail(sets))}

\* ---------------------------------------------------------------- find_nozzles
\* variant: tolerance test written with <=
MatchDetailLe(x, start, end, n, tol, exactIn, g) ==
  LET num == (x - start) * (n - 1) + (end - start)
      den == end - start
      half == (2 * num) % den = 0 /\ ((2 * num) \div den) % 2 = 1
      boundary == half \/ Abs(RoundHalfEven(num, den) * den - num) * tol.den = tol.num * den
      offsets == IF ~boundary THEN {0}
                 ELSE IF exactIn THEN {FloatPosOffset((x - start) \div g, (end - start) \div g, n - 1)}
                 ELSE {-1, 0, 1}
  IN UNION {
       LET rounded == IF half /\ e = -1 THEN num \div den
                      ELSE IF half /\ e = 1 THEN num \div den + 1
                      ELSE RoundHalfEven(num, den)
           lhs == Abs(rounded * den - num) * tol.den
           rhs == tol.num * den
       IN {<<x, <<num, den, e>>, rounded, b>> :
             b \in IF lhs <= rhs THEN {TRUE} ELSE {FALSE}}
       : e \in offsets}

\* One loop iteration: the possible Match Details <<x, pos, rounded, in_tol>>
\* with pos = (x - start) / step + 1 = num / den exactly, plus the side e of
\* the double pos from num / den at a rounding or tolerance boundary (0
\* elsewhere); rounded = round(pos) (half to even).  exactIn: the xs are
\* doubles exactly, x / OddPart(unit) = g being integers over a power of 2.
MatchDetail(x, start, end, n, tol, exactIn, g) ==
  LET num == (x - start) * (n - 1) + (end - start)
      den == end - start
      half == (2 * num) % den = 0 /\ ((2 * num) \div den) % 2 = 1
      boundary == half \/ Abs(RoundHalfEven(num, den) * den - num) * tol.den = tol.num * den
      offsets == IF ~boundary THEN {0}
                 ELSE IF exactIn THEN {FloatPosOffset((x - start) \div g, (end - start) \div g, n - 1)}
                 ELSE {-1, 0, 1}
  IN UNION {
       LET rounded == IF half /\ e = -1 THEN num \div den
                      ELSE IF half /\ e = 1 THEN num \div den + 1
                      ELSE RoundHalfEven(num, den)
           lhs == Abs(rounded * den - num) * tol.den
           rhs == tol.num * den
       IN {<<x, <<num, den, e>>, rounded, b>> :
             b \in InTolOutcomes(lhs, rhs, e * Sign(num - rounded * den),
                                 Dyadic(tol.num, tol.den))}
       : e \in offsets}

IsInTol(d) == d[4]
IsOutTol(d) == ~d[4]

FnResult(details, start, end, n) ==
  LET acc == SelectSeq(details, IsInTol)
      rej == SelectSeq(details, IsOutTol)
  IN [raises |-> FALSE,
      indices |-> [i \in 1..Len(acc) |-> acc[i][3]],
      out_of_range |-> [i \in 1..Len(rej) |-> <<rej[i][1], rej[i][2]>>],
      start |-> start, end |-> end, step |-> <<end - start, n - 1>>,
      details |-> details]

\* variant: guard without "nozzle_count < 2"; (end - start) / 0 raises for N = 1
FindNozzlesNoCountGuard(xs, n, tol, exactIn, unit) ==
  IF Len(xs) < 2
  THEN {[raises |-> FALSE, indices |-> <<>>, out_of_range |-> <<>>,
         start |-> 0, end |-> 0, step |-> <<0, 1>>, details |-> <<>>]}
  ELSE
    LET sorted_x == SortNums(xs)
        start == sorted_x[1]
        end == sorted_x[Len(sorted_x)]
        mid == SubSeq(sorted_x, 2, Len(sorted_x) - 1)
    IN IF n = 1 \/ (end = start /\ Len(mid) > 0)
       THEN {[raises |-> TRUE, indices |-> <<>>, out_of_range |-> <<>>,
              start |-> start, end |-> end, step |-> <<0, 1>>, details |-> <<>>]}
       ELSE
         {FnResult(ds, start, end, n) :
            ds \in SeqChoices([i \in 1..Len(mid) |->
                                 MatchDetail(mid[i], start, end, n, tol, exactIn, OddPart(unit))])}

\* find_nozzles(xs, nozzle_count, tolerance): the set of possible results.
\* xs are the coordinates times unit (exactIn: each is a double exactly);
\* raises = ZeroDivisionError from (x - start) / step when step == 0.0 and
\* the loop body runs.
FindNozzles(xs, n, tol, exactIn, unit) ==
  IF Len(xs) < 2 \/ n < 2
  THEN {[raises |-> FALSE, indices |-> <<>>, out_of_range |-> <<>>,
         start |-> 0, end |-> 0, step |-> <<0, 1>>, details |-> <<>>]}
  ELSE
    LET sorted_x == SortNums(xs)
        start == sorted_x[1]
        end == sorted_x[Len(sorted_x)]
        mid == SubSeq(sorted_x, 2, Len(sorted_x) - 1)
    IN IF n = 1
       THEN {[raises |-> FALSE, indices |-> <<>>, out_of_range |-> <<>>,
              start |-> start, end |-> end, step |-> <<0, 1>>, details |-> <<>>]}
       ELSE IF end = start /\ Len(mid) > 0
       THEN {[raises |-> TRUE, indices |-> <<>>, out_of_range |-> <<>>,
              start |-> start, end |-> end, step |-> <<0, 1>>, details |-> <<>>]}
       ELSE
         {FnResult(ds, start, end, n) :
            ds \in SeqChoices([i \in 1..Len(mid) |->
                                 MatchDetail(mid[i], start, end, n, tol, exactIn, OddPart(unit))])}

\* ---------------------------------------------------------------- rotate_to_vertical
\* sorted(points, key=lambda p: p[0]) -- a stable sort on x
RECURSIVE StableSortByX(_)
StableSortByX(s) ==
  IF s = <<>> THEN <<>>
  ELSE LET pre == StableSortByX(SubSeq(s, 1, Len(s) - 1))
           e == s[Len(s)]
           k == Cardinality({i \in 1..Len(pre) : pre[i][1] <= e[1]})
       IN SubSeq(pre, 1, k) \o <<e>> \o SubSeq(pre, k + 1, Len(pre))

\* variant: rotation by +angle instead of -angle
RotatePointPlus(p, dx, dy) ==
  IF dx = 0 /\ dy = 0 THEN p
  ELSE <<p[1] * dx - p[2] * dy, p[2] * dx + p[1] * dy>>

\* rotation of one point by -atan2(dy, dx), scaled by r = sqrt(dx^2 + dy^2);
\* atan2(0, 0) = 0 leaves the point unchanged
RotatePoint(p, dx, dy) ==
  IF dx = 0 /\ dy = 0 THEN p
  ELSE <<p[1] * dx + p[2] * dy, p[2] * dx - p[1] * dy>>

\* rotate_to_vertical(points): the bare list [] for fewer than two points,
\* else the angle (as the arguments <<dy, dx>> of atan2) and the rotated
\* points in stable x-sorted order
RotateToVertical(points) ==
  IF Len(points) < 2 THEN <<>>
  ELSE
    LET pts == StableSortByX(points)
        dx == pts[Len(pts)][1] - pts[1][1]
        dy == pts[Len(pts)][2] - pts[1][2]
    IN [angle |-> <<dy, dx>>,
        rotated |-> [i \in 1..Len(pts) |-> RotatePoint(pts[i], dx, dy)]]

\* ---------------------------------------------------------------- process_labels
\* labels are Python str, modelled as sequences of code points; sorted()
\* compares them lexicographically by code point
RECURSIVE LexLess(_, _)
LexLess(a, b) ==
  IF b = <<>> THEN FALSE
  ELSE IF a = <<>> THEN TRUE
  ELSE IF a[1] # b[1] THEN a[1] < b[1]
  ELSE LexLess(Tail(a), Tail(b))

RECURSIVE SortLabels(_)
SortLabels(S) ==
  IF S = {} THEN <<>>
  ELSE LET m == CHOOSE l \in S : \A o \in S : o = l \/ LexLess(l, o)
       IN <<m>> \o SortLabels(S \ {m})

\* the dict groups is a sequence of <<label, points>> in insertion order
LabelsOf(groups) == {groups[i][1] : i \in 1..Len(groups)}

PointsOf(groups, l) == groups[CHOOSE i \in 1..Len(groups) : groups[i][1] = l][2]

\* loop body of process_labels for one label: the possible LabelData
\* records.  Coordinates are values times unit; the rotated x is x itself,
\* a double exactly when x / unit is, when the angle is 0.0 (dy = 0: cos
\* 1.0, sin -0.0); otherwise it is the rotated x times r, and inexact.
LabelResult(l, pts, n, tol, unit) ==
  LET rot == IF Len(pts) >= 2 THEN RotateToVertical(pts)
             ELSE [angle |-> <<0, 0>>, rotated |-> <<>>]
      \* angle 0: the code's rotated x is x itself (the model's is x * dx)
      xs == [i \in 1..Len(rot.rotated) |->
               IF rot.angle[1] = 0 /\ rot.angle[2] > 0
               THEN rot.rotated[i][1] \div rot.angle[2] ELSE rot.rotated[i][1]]
      exactIn == rot.angle[1] = 0 /\ \A i \in 1..Len(pts) : Dyadic(pts[i][1], unit)
  IN {[raises |-> fn.raises, label |-> l, points |-> pts,
       nozzle_indices |-> fn.indices, out_of_range |-> fn.out_of_range,
       angle |-> rot.angle, step |-> fn.step, start |-> fn.start,
       end |-> fn.end, details |-> fn.details]
      : fn \in FindNozzles(xs, n, tol, exactIn, unit)}

ProcessLabelsInOrder(groups, order, n, tol, unit) ==
  {IF \E i \in 1..Len(rs) : rs[i].raises
   THEN [raises |-> TRUE, results |-> <<>>]
   ELSE [raises |-> FALSE, results |-> rs]
   : rs \in SeqChoices([i \in 1..Len(order) |->
                          LabelResult(order[i], PointsOf(groups, order[i]), n, tol, unit)])}

\* variant: labels in dict insertion order instead of sorted order
ProcessLabelsInsertionOrder(groups, n, tol, unit) ==
  ProcessLabelsInOrder(groups, [i \in 1..Len(groups) |-> groups[i][1]], n, tol, unit)

\* process_labels(groups, nozzle_count, tolerance): the possible results
ProcessLabels(groups, n, tol, unit) ==
  ProcessLabelsInOrder(groups, SortLabels(LabelsOf(groups)), n, tol, unit)

\* ---------------------------------------------------------------- main: combined
RECURSIVE SortSet(_)
SortSet(S) ==
  IF S = {} THEN <<>>
  ELSE LET m == CHOOSE v \in S : \A o \in S : v <= o
       IN <<m>> \o SortSet(S \ {m})

RECURSIVE AllIndices(_)
AllIndices(ld) ==
  IF ld = <<>> THEN <<>> ELSE Head(ld).nozzle_indices \o AllIndices(Tail(ld))

\* variant: sorted list of all indices without removing duplicates
CombinedIndicesNoDedup(ld) == SortNums(AllIndices(ld))

\* sorted({idx for ld in label_data for idx in ld.nozzle_indices})
CombinedIndices(ld) ==
  SortSet(UNION {Range(ld[i].nozzle_indices) : i \in 1..Len(ld)})

\* ---------------------------------------------------------------- state
VARIABLES groups, unit, nozzles, tol, pc, label_data, combined, fn_xs, fn_out,
          rot_in, rot_out

vars == <<groups, unit, nozzles, tol, pc, label_data, combined, fn_xs, fn_out,
          rot_in, rot_out>>

NoFn == [raises |-> FALSE, indices |-> <<>>, out_of_range |-> <<>>,
         start |-> 0, end |-> 0, step |-> <<0, 1>>, details |-> <<>>]

NoRot == <<>>

\* ---------------------------------------------------------------- main / process_labels
LabelA == <<65>>
LabelB == <<66>>
LabelAB == <<65, 66>>

Pt == (0..MaxCoord) \X (0..MaxY)

LevelPt == (0..MaxCoord) \X {0}

SeqsUpTo(S, k) == UNION {[1..j -> S] : j \in 0..k}

\* dicts from load_points: one or two labels in either insertion order
GroupInputs ==
  {<<<<l, p>>>> : l \in {LabelB, LabelAB},
                  p \in SeqsUpTo(Pt, MaxPts)}
  \cup {<<<<l1, p1>>, <<l2, p2>>>> :
          <<l1, l2>> \in {<<LabelB, LabelAB>>, <<LabelAB, LabelB>>},
          p1 \in SeqsUpTo(Pt, MaxPts), p2 \in SeqsUpTo(LevelPt, MaxPts)}

Tols == {[num |-> 1, den |-> 4], [num |-> 1, den |-> 2]}

Init ==
  /\ groups \in GroupInputs /\ unit = 1
  /\ nozzles \in 1..MaxN
  /\ tol \in Tols
  /\ pc = "loaded"
  /\ label_data = <<>>
  /\ combined = <<>>
  /\ fn_xs = <<>> /\ fn_out = NoFn
  /\ rot_in = <<>> /\ rot_out = NoRot

\* main: label_data = process_labels(groups, args.nozzles, args.tolerance)
ProcessLabelsStep ==
  /\ pc = "loaded"
  /\ \E r \in ProcessLabels(groups, nozzles, tol, unit) :
        IF r.raises
        THEN pc' = "error" /\ label_data' = <<>>
        ELSE pc' = "processed" /\ label_data' = r.results
  /\ UNCHANGED <<groups, unit, nozzles, tol, combined, fn_xs, fn_out, rot_in, rot_out>>

\* main: combined = sorted({idx for ld in label_data for idx in ld.nozzle_indices})
CombineStep ==
  /\ pc = "processed"
  /\ combined' = CombinedIndices(label_data)
  /\ pc' = "done"
  /\ UNCHANGED <<groups, unit, nozzles, tol, label_data, fn_xs, fn_out, rot_in, rot_out>>

Next == ProcessLabelsStep \/ CombineStep

Spec == Init /\ [][Next]_vars

\* ---------------------------------------------------------------- find_nozzles alone
FnTols == {[num |-> 1, den |-> 4], [num |-> 1, den |-> 2], [num |-> 3, den |-> 4]}

FnInit ==
  /\ fn_xs \in SeqsUpTo(0..FnMaxX, FnMaxLen) /\ unit = 1
  /\ nozzles \in 1..FnMaxN
  /\ tol \in FnTols
  /\ pc = "fn_ready" /\ fn_out = NoFn
  /\ groups = <<>> /\ label_data = <<>> /\ combined = <<>>
  /\ rot_in = <<>> /\ rot_out = NoRot

FindNozzlesStep ==
  /\ pc = "fn_ready"
  /\ fn_out' \in FindNozzles(fn_xs, nozzles, tol, TRUE, unit)
  /\ pc' = IF fn_out'.raises THEN "fn_error" ELSE "fn_done"
  /\ UNCHANGED <<groups, unit, nozzles, tol, label_data, combined, fn_xs, rot_in, rot_out>>

FnNext == FindNozzlesStep

FnSpec == FnInit /\ [][FnNext]_vars

\* ---------------------------------------------------------------- one interior point, wider grids
\* find_nozzles([0, x, d], N, T): spans and nozzle counts whose step
\* (end - start) / (N - 1) is not a double, e.g. [0, 25, 50] with N = 12
HalfInit ==
  /\ fn_xs \in {<<0, x, d>> : d \in 1..HalfMaxSpan, x \in 0..HalfMaxSpan} /\ fn_xs[2] <= fn_xs[3]
  /\ unit = 1
  /\ nozzles \in 2..HalfMaxN
  /\ tol \in FnTols
  /\ pc = "fn_ready" /\ fn_out = NoFn
  /\ groups = <<>> /\ label_data = <<>> /\ combined = <<>>
  /\ rot_in = <<>> /\ rot_out = NoRot

HalfSpec == HalfInit /\ [][FnNext]_vars

\* ---------------------------------------------------------------- rotate_to_vertical alone
RotPt == (0..MaxCoord) \X (-MaxY..MaxY)

RotInit ==
  /\ rot_in \in UNION {[1..j -> RotPt] : j \in 2..MaxPts} /\ unit = 1
  /\ pc = "rot_ready" /\ rot_out = NoRot
  /\ groups = <<>> /\ nozzles = 1 /\ tol = [num |-> 1, den |-> 4]
  /\ label_data = <<>> /\ combined = <<>>
  /\ fn_xs = <<>> /\ fn_out = NoFn

RotateStep ==
  /\ pc = "rot_ready"
  /\ rot_out' = RotateToVertical(rot_in)
  /\ pc' = "rot_done"
  /\ UNCHANGED <<groups, unit, nozzles, tol, label_data, combined, fn_xs, fn_out, rot_in>>

RotNext == RotateStep

RotSpec == RotInit /\ [][RotNext]_vars

\* ---------------------------------------------------------------- end-to-end scenarios
\* label "A" with points (0, 0), (x, 0), (100, 0); coordinates in tenths
ScenarioTenths == 0..1000

ScenarioInit ==
  /\ groups \in {<<<<LabelA, <<<<0, 0>>, <<x, 0>>, <<1000, 0>>>> >>>> : x \in ScenarioTenths}
  /\ unit = 10
  /\ nozzles = 3
  /\ tol = [num |-> 1, den |-> 4]
  /\ pc = "loaded"
  /\ label_data = <<>> /\ combined = <<>>
  /\ fn_xs = <<>> /\ fn_out = NoFn
  /\ rot_in = <<>> /\ rot_out = NoRot

ScenarioSpec == ScenarioInit /\ [][Next]_vars

\* ================================================================ properties

\* Match Detail d = <<x, <<num, den, e>>, rounded, in_tol>>: the coordinate
\* is placed at an exact half step, pos = m + 0.5 in exact arithmetic
AtHalfStep(d) == (2 * d[2][1]) % d[2][2] = 0 /\ ((2 * d[2][1]) \div d[2][2]) % 2 = 1

\* ... and the double pos the code computes is exactly m + 0.5
IsHalfStep(d) ==
  d[2][3] = 0 /\ (2 * d[2][1]) % d[2][2] = 0 /\ ((2 * d[2][1]) \div d[2][2]) % 2 = 1

\* C1: for N >= 2, T > 0 and start < end, an interior coordinate placed exactly
\* at start + k*s (s = (end - start)/(N - 1), k in 1..N-2) is matched with
\* rounded index k, in-tolerance TRUE, and k is in the accepted index list.
C1_GridPointIndex ==
  (pc = "fn_done" /\ nozzles >= 2 /\ fn_out.start < fn_out.end) =>
    \A i \in 1..Len(fn_out.details) :
      \A k \in 1..(nozzles - 2) :
        LET d == fn_out.details[i]
        IN d[1] * (nozzles - 1) = fn_out.start * (nozzles - 1) + k * (fn_out.end - fn_out.start)
           => (d[3] = k /\ d[4] /\ k \in Range(fn_out.indices))

C1_Witness ==
  /\ pc = "fn_done" /\ nozzles = 4 /\ fn_out.start < fn_out.end
  /\ \E i \in 1..Len(fn_out.details) :
       fn_out.details[i][1] * 3 = fn_out.start * 3 + (fn_out.end - fn_out.start)

\* C2: label "A" at x = 0, 50.2, 100 (y = 0), N = 3, T = 0.25 gives pos 1.004,
\* rounded 1, accepted and Combined Index Set {1}; at x = 62, pos 1.24,
\* rounded 1, accepted; at x = 63, pos 1.26, rounded 1, out of range and not
\* in the Combined Index Set.
C2_Scenarios ==
  pc = "done" =>
    LET x == groups[1][2][2][1]
        d == label_data[1].details[1]
        posIs(v) == d[2][1] * 1000 = v * d[2][2]
    IN /\ x = 502 => (posIs(1004) /\ d[3] = 1 /\ d[4] /\ combined = <<1>>)
       /\ x = 620 => (posIs(1240) /\ d[3] = 1 /\ d[4] /\ 1 \in Range(combined))
       /\ x = 630 => (posIs(1260) /\ d[3] = 1 /\ ~d[4] /\ 1 \notin Range(combined))

C2_Witness == pc = "done" /\ groups[1][2][2][1] = 502

\* C3: every accepted index of find_nozzles is an integer in 0..N-1.
C3_IndexRange ==
  pc = "fn_done" => \A i \in 1..Len(fn_out.indices) : fn_out.indices[i] \in 0..(nozzles - 1)

C3_Witness == pc = "fn_done" /\ Len(fn_out.indices) > 0

\* C4: the Combined Index Set is strictly ascending, each member is accepted
\* by some label, and each accepted index of each label is a member.
C4_CombinedSet ==
  pc = "done" =>
    /\ \A i \in 1..(Len(combined) - 1) : combined[i] < combined[i + 1]
    /\ \A i \in 1..Len(combined) :
         \E j \in 1..Len(label_data) : combined[i] \in Range(label_data[j].nozzle_indices)
    /\ \A j \in 1..Len(label_data) : Range(label_data[j].nozzle_indices) \subseteq Range(combined)

C4_Witness ==
  /\ pc = "done" /\ Len(label_data) = 2
  /\ Range(label_data[1].nozzle_indices) \cap Range(label_data[2].nozzle_indices) # {}

\* C5: process_labels returns the same Label Results, in sorted label order,
\* and the same Combined Index Set for every insertion order of the mapping
\* (each label's double results depend only on its own points, so the
\* results of one order are results of every other order).
Permute(g, f) == [i \in 1..Len(g) |-> g[f[i]]]

Perms(n) == {f \in [1..n -> 1..n] : Range(f) = 1..n}

C5_OrderIndependent ==
  /\ pc \in {"processed", "done"} =>
       /\ \A i \in 1..(Len(label_data) - 1) : LexLess(label_data[i].label, label_data[i + 1].label)
       /\ \A f \in Perms(Len(groups)) :
            [raises |-> FALSE, results |-> label_data]
              \in ProcessLabels(Permute(groups, f), nozzles, tol, unit)
  /\ pc = "done" =>
       \A f \in Perms(Len(groups)) :
         \E r \in ProcessLabels(Permute(groups, f), nozzles, tol, unit) :
           ~r.raises /\ CombinedIndices(r.results) = combined
  /\ pc = "error" =>
       \A f \in Perms(Len(groups)) :
         \A r \in ProcessLabels(Permute(groups, f), nozzles, tol, unit) : r.raises

C5_Witness ==
  /\ pc = "done" /\ Len(groups) = 2 /\ groups[1][1] = LabelB
  /\ combined # <<>>

\* C6: a label with 0 or 1 points, or any label when N = 1, yields empty
\* accepted and out-of-range lists, contributes nothing to the Combined Index
\* Set and never makes processing fail.
Degenerate(pts) == Len(pts) <= 1 \/ nozzles = 1

C6_DegenerateEmpty ==
  /\ pc = "error" => \E i \in 1..Len(groups) : ~Degenerate(groups[i][2])
  /\ pc \in {"processed", "done"} =>
       \A j \in 1..Len(label_data) :
         Degenerate(label_data[j].points) =>
           (label_data[j].nozzle_indices = <<>> /\ label_data[j].out_of_range = <<>>)
  /\ pc = "done" =>
       \A i \in 1..Len(combined) :
         \E j \in 1..Len(label_data) :
           ~Degenerate(label_data[j].points) /\ combined[i] \in Range(label_data[j].nozzle_indices)

C6_Witness ==
  /\ pc = "done" /\ combined # <<>>
  /\ \E j \in 1..Len(label_data) : Len(label_data[j].points) = 1

\* C7: process_labels raises no error for any geometry of the input points.
C7_NoError == pc # "error"

C9_OneDetailPerInterior ==
  (pc \in {"fn_done", "fn_error"} /\ Len(fn_xs) >= 2 /\ nozzles >= 2) =>
    /\ Len(fn_out.details) = Len(fn_xs) - 2
    /\ Len(fn_out.indices) + Len(fn_out.out_of_range) = Len(fn_out.details)
    /\ LET acc == SelectSeq(fn_out.details, IsInTol)
           rej == SelectSeq(fn_out.details, IsOutTol)
       IN /\ fn_out.indices = [i \in 1..Len(acc) |-> acc[i][3]]
          /\ fn_out.out_of_range = [i \in 1..Len(rej) |-> <<rej[i][1], rej[i][2]>>]

\* C10: rotate_to_vertical levels the line through the first and last
\* stably x-sorted points: their rotated y-components are equal.
C10_EndpointsLevel ==
  pc = "rot_done" =>
    LET r == rot_out.rotated
    IN Len(r) = Len(rot_in) /\ r[1][2] = r[Len(r)][2]

C10_Witness ==
  /\ pc = "rot_done" /\ Len(rot_in) = 3
  /\ rot_out.angle[1] # 0 /\ rot_out.angle[2] # 0

====
